---- MODULE Spec2Model ----
(***************************************************************************)
(* ChatContextProvider (src/components/chat/ChatContext.tsx): the          *)
(* sendMessage mutation and its onMutate / onSuccess / onError / onSettled *)
(* callbacks acting on the getFileMessages query cache.                    *)
(*                                                                         *)
(* Texts are sequences of Unicode code points, byte chunks are sequences   *)
(* of byte values.  A record is [id, text, isUserMessage]; createdAt is    *)
(* written by the code and never read, and is left out.                    *)
(*                                                                         *)
(* Event loop: a callback runs to its next await without interruption.     *)
(* The awaits on the query-cache promises (cancel) and the hand-over       *)
(* between two callbacks of one mutation resolve in microtasks, so no      *)
(* input, network or refetch event is taken while a mutation is at such a  *)
(* point (Running); the awaits on fetch and reader.read() are             *)
(* real suspensions.                                                       *)
(***************************************************************************)
EXTENDS Integers, Sequences, FiniteSets, TLC

\* ------------------------------------------------------------------ bounds
MaxMutations == 2
MaxReads == 2

Mutations == 1..MaxMutations

\* ------------------------------------------------------------ vocabulary
Files == {"f1", "f2"}
fileId == "f1"
NoInput == "undefined"
InfiniteKeys == Files \cup {NoInput}
AiResponseId == "ai-response"

InputTexts == {<<>>, <<104, 105>>}
Chunks == {<<195>>, <<169, 97>>}

EmptyEntry == [present |-> TRUE, pages |-> <<>>, pageParams |-> <<>>]
AbsentEntry == [present |-> FALSE, pages |-> <<>>, pageParams |-> <<>>]
AbsentData == [present |-> FALSE, messages |-> <<>>]

ServerRecord(n) ==
    [id |-> "db-" \o ToString(n), text |-> <<48 + n>>, isUserMessage |-> (n % 2 = 1)]

ServerEntries(f) ==
    IF f = fileId
    THEN { [present |-> TRUE,
            pages |-> << [messages |-> <<>>, nextCursor |-> "none"] >>,
            pageParams |-> << "undefined" >>],
           [present |-> TRUE,
            pages |-> << [messages |-> << ServerRecord(2) >>, nextCursor |-> "db-1"],
                         [messages |-> << ServerRecord(1) >>, nextCursor |-> "none"] >>,
            pageParams |-> << "undefined", "db-1" >>] }
    ELSE { [present |-> TRUE,
            pages |-> << [messages |-> << ServerRecord(3) >>, nextCursor |-> "none"] >>,
            pageParams |-> << "undefined" >>] }

\* ------------------------------------------------------------------ state
VARIABLES message, isLoading, backupMessage, infiniteData, queryData, fetching,
          mutations

vars == <<message, isLoading, backupMessage, infiniteData, queryData, fetching,
          mutations>>

NoContext == [defined |-> FALSE, previousMessages |-> <<>>]
NoRequest == [sent |-> FALSE, fileId |-> "", message |-> <<>>]

IdleMutation ==
    [pc |-> "idle", variables |-> <<>>, context |-> NoContext, request |-> NoRequest,
     outcome |-> "pending", reads |-> 0, chunks |-> <<>>, accResponse |-> <<>>,
     preInsert |-> <<>>, effects |-> <<>>]

\* ---------------------------------------------------------- pure helpers
RECURSIVE FlatMessages(_)
FlatMessages(pages) ==
    IF pages = <<>> THEN <<>>
    ELSE Head(pages).messages \o FlatMessages(Tail(pages))

RECURSIVE Count(_, _)
Count(s, x) ==
    IF s = <<>> THEN 0
    ELSE (IF Head(s) = x THEN 1 ELSE 0) + Count(Tail(s), x)

ReplacementChar == 65533
ByteOrderMark == 65279

\* The UTF-8 decoder of TextDecoder (non-fatal): cp is the code point being
\* assembled, needed the continuation bytes still expected, lower..upper the
\* range the next continuation byte must lie in.
RECURSIVE Utf8(_, _, _, _, _, _, _)
Utf8(bytes, i, cp, needed, lower, upper, out) ==
    IF i > Len(bytes)
    THEN IF needed # 0 THEN Append(out, ReplacementChar) ELSE out
    ELSE LET b == bytes[i] IN
         IF needed = 0
         THEN IF b <= 127 THEN Utf8(bytes, i + 1, 0, 0, 128, 191, Append(out, b))
              ELSE IF b >= 194 /\ b <= 223
                   THEN Utf8(bytes, i + 1, b - 192, 1, 128, 191, out)
              ELSE IF b >= 224 /\ b <= 239
                   THEN Utf8(bytes, i + 1, b - 224, 2,
                             IF b = 224 THEN 160 ELSE 128,
                             IF b = 237 THEN 159 ELSE 191, out)
              ELSE IF b >= 240 /\ b <= 244
                   THEN Utf8(bytes, i + 1, b - 240, 3,
                             IF b = 240 THEN 144 ELSE 128,
                             IF b = 244 THEN 143 ELSE 191, out)
              ELSE Utf8(bytes, i + 1, 0, 0, 128, 191, Append(out, ReplacementChar))
         ELSE IF b < lower \/ b > upper
              THEN Utf8(bytes, i, 0, 0, 128, 191, Append(out, ReplacementChar))
              ELSE IF needed = 1
                   THEN Utf8(bytes, i + 1, 0, 0, 128, 191,
                             Append(out, cp * 64 + (b - 128)))
                   ELSE Utf8(bytes, i + 1, cp * 64 + (b - 128), needed - 1,
                             128, 191, out)

\* decoder.decode(value): one complete, independent decode per call (no
\* {stream: true}); a leading byte order mark is dropped; decode(undefined)
\* is the empty text.
Decode(value) ==
    LET out == Utf8(value, 1, 0, 0, 128, 191, <<>>) IN
    IF out # <<>> /\ Head(out) = ByteOrderMark THEN Tail(out) ELSE out

AccumulateLastOnly(accResponse, chuckValue) == chuckValue

\* accResponse += chuckValue
Accumulate(accResponse, chuckValue) == accResponse \o chuckValue

Uuid(m) == "uuid-" \o ToString(m)

OwnMessage(m, text) == [id |-> Uuid(m), text |-> text, isUserMessage |-> TRUE]

OptimisticTransformAppend(old, record) ==
    IF ~old.present THEN [threw |-> FALSE, entry |-> EmptyEntry]
    ELSE IF Len(old.pages) = 0 THEN [threw |-> TRUE, entry |-> old]
    ELSE [threw |-> FALSE,
          entry |-> [old EXCEPT !.pages[1].messages = Append(@, record)]]

\* The updater of onMutate.  threw: newPages[0]! is undefined on an entry
\* without pages and reading its .messages raises a TypeError.
OptimisticTransform(old, record) ==
    IF ~old.present THEN [threw |-> FALSE, entry |-> EmptyEntry]
    ELSE IF Len(old.pages) = 0 THEN [threw |-> TRUE, entry |-> old]
    ELSE [threw |-> FALSE,
          entry |-> [old EXCEPT !.pages[1].messages = <<record>> \o @]]

IsAiResponseCreatedNever(old) == FALSE

IsAiResponseCreated(old) ==
    \E p \in 1..Len(old.pages) :
        \E i \in 1..Len(old.pages[p].messages) :
            old.pages[p].messages[i].id = AiResponseId

AiResponse(text) == [id |-> AiResponseId, text |-> text, isUserMessage |-> FALSE]

\* The updater of the read loop of onSuccess.
FoldTransform(old, accResponse) ==
    IF ~old.present THEN EmptyEntry
    ELSE [old EXCEPT !.pages =
            [p \in 1..Len(old.pages) |->
                IF p = 1
                THEN IF ~IsAiResponseCreated(old)
                     THEN [old.pages[p] EXCEPT
                             !.messages = <<AiResponse(accResponse)>> \o @]
                     ELSE [old.pages[p] EXCEPT
                             !.messages =
                                [i \in 1..Len(old.pages[p].messages) |->
                                    IF old.pages[p].messages[i].id = AiResponseId
                                    THEN [old.pages[p].messages[i] EXCEPT
                                            !.text = accResponse]
                                    ELSE old.pages[p].messages[i]]]
                ELSE old.pages[p]]]

\* A mutation is between two of its callbacks, or awaiting a query-cache
\* promise: its continuation is a pending microtask.
Running ==
    \E m \in Mutations :
        mutations[m].pc \in {"onMutate", "rejected", "onSuccessDone", "onErrorDone"}

InFlight(m) == mutations[m].pc \notin {"idle", "settled"}

\* Data chunks delivered so far, over all streams.
RECURSIVE ReadsUpTo(_)
ReadsUpTo(m) ==
    IF m = 0 THEN 0 ELSE mutations[m].reads + ReadsUpTo(m - 1)

\* ------------------------------------------------------------------- Init
Init ==
    /\ message = <<>>
    /\ isLoading = FALSE
    /\ backupMessage = <<>>
    /\ infiniteData = [k \in InfiniteKeys |->
            IF k \in Files \ {fileId}
            THEN CHOOSE entry \in ServerEntries(k) : TRUE
            ELSE AbsentEntry]
    /\ queryData = [f \in Files |-> AbsentData]
    /\ fetching = [f \in Files |-> FALSE]
    /\ mutations = [m \in Mutations |-> IdleMutation]

\* ---------------------------------------------------------------- actions
\* handleInputChange
HandleInputChange(text) ==
    /\ ~Running
    /\ message' = text
    /\ UNCHANGED <<isLoading, backupMessage, infiniteData, queryData, fetching,
                   mutations>>

\* A background refresh of the infinite query of file f starts (mount,
\* window focus, reconnect).
StartRefresh(f) ==
    /\ ~Running
    /\ ~fetching[f]
    /\ fetching' = [fetching EXCEPT ![f] = TRUE]
    /\ UNCHANGED <<message, isLoading, backupMessage, infiniteData, queryData,
                   mutations>>

\* An in-flight refresh completes and replaces the entry by the server's pages.
CompleteRefresh(f, entry) ==
    /\ ~Running
    /\ fetching[f]
    /\ fetching' = [fetching EXCEPT ![f] = FALSE]
    /\ infiniteData' = [infiniteData EXCEPT ![f] = entry]
    /\ UNCHANGED <<message, isLoading, backupMessage, queryData, mutations>>

AddMessageNoCancel(m) ==
    /\ ~Running
    /\ mutations[m].pc = "idle"
    /\ \A n \in Mutations : n < m => mutations[n].pc # "idle"
    /\ backupMessage' = message
    /\ message' = <<>>
    /\ mutations' = [mutations EXCEPT ![m] =
            [@ EXCEPT !.pc = "onMutate", !.variables = message,
                      !.effects = <<"cancel">>]]
    /\ UNCHANGED <<isLoading, infiniteData, queryData, fetching>>

\* addMessage -> sendMessage({message}); onMutate up to the await of cancel().
\* cancel() is called without input: it aborts the refreshes of every
\* getFileMessages query.
AddMessage(m) ==
    /\ ~Running
    /\ mutations[m].pc = "idle"
    /\ \A n \in Mutations : n < m => mutations[n].pc # "idle"
    /\ backupMessage' = message
    /\ message' = <<>>
    /\ fetching' = [f \in Files |-> FALSE]
    /\ mutations' = [mutations EXCEPT ![m] =
            [@ EXCEPT !.pc = "onMutate", !.variables = message,
                      !.effects = <<"cancel">>]]
    /\ UNCHANGED <<isLoading, infiniteData, queryData>>

\* onMutate after the await: getInfiniteData() (no input), the optimistic
\* setInfiniteData, setIsLoading(true), the returned context; then mutationFn
\* issues the fetch.  An updater that throws rejects onMutate.
OnMutateResume(m) ==
    /\ mutations[m].pc = "onMutate"
    /\ LET previousMessages == infiniteData[NoInput]
           old == infiniteData[fileId]
           res == OptimisticTransform(old, OwnMessage(m, mutations[m].variables))
       IN IF res.threw
          THEN /\ mutations' = [mutations EXCEPT ![m] =
                    [@ EXCEPT !.pc = "rejected", !.outcome = "typeError",
                              !.preInsert = FlatMessages(old.pages),
                              !.effects = @ \o <<"snapshot">>]]
               /\ UNCHANGED <<isLoading, infiniteData>>
          ELSE /\ infiniteData' = [infiniteData EXCEPT ![fileId] = res.entry]
               /\ isLoading' = TRUE
               /\ mutations' = [mutations EXCEPT ![m] =
                    [@ EXCEPT !.pc = "mutationFn",
                              !.context =
                                 [defined |-> TRUE,
                                  previousMessages |->
                                     IF previousMessages.present
                                     THEN FlatMessages(previousMessages.pages)
                                     ELSE <<>>],
                              !.request = [sent |-> TRUE, fileId |-> fileId,
                                           message |-> mutations[m].variables],
                              !.preInsert = FlatMessages(old.pages),
                              !.effects = @ \o <<"snapshot", "transform", "dispatch">>]]
    /\ UNCHANGED <<message, backupMessage, queryData, fetching>>

\* fetch rejects, or the response is not OK: mutationFn throws.
ResponseError(m) ==
    /\ ~Running
    /\ mutations[m].pc = "mutationFn"
    /\ mutations' = [mutations EXCEPT ![m] =
            [@ EXCEPT !.pc = "rejected", !.outcome = "requestError"]]
    /\ UNCHANGED <<message, isLoading, backupMessage, infiniteData, queryData,
                   fetching>>

\* The response is OK and response.body is null: onSuccess toasts and returns.
ResponseNoBody(m) ==
    /\ ~Running
    /\ mutations[m].pc = "mutationFn"
    /\ isLoading' = FALSE
    /\ mutations' = [mutations EXCEPT ![m] =
            [@ EXCEPT !.pc = "onSuccessDone", !.outcome = "noBody",
                      !.effects = @ \o <<"toast">>]]
    /\ UNCHANGED <<message, backupMessage, infiniteData, queryData, fetching>>

ResponseStreamInvalidatesEarly(m) ==
    /\ ~Running
    /\ mutations[m].pc = "mutationFn"
    /\ isLoading' = FALSE
    /\ fetching' = [fetching EXCEPT ![fileId] = TRUE]
    /\ mutations' = [mutations EXCEPT ![m] =
            [@ EXCEPT !.pc = "onSuccess", !.accResponse = <<>>, !.chunks = <<>>,
                      !.effects = Append(@, "invalidate")]]
    /\ UNCHANGED <<message, backupMessage, infiniteData, queryData>>

\* The response is OK with a body: onSuccess up to the first reader.read().
ResponseStream(m) ==
    /\ ~Running
    /\ mutations[m].pc = "mutationFn"
    /\ isLoading' = FALSE
    /\ mutations' = [mutations EXCEPT ![m] =
            [@ EXCEPT !.pc = "onSuccess", !.accResponse = <<>>, !.chunks = <<>>]]
    /\ UNCHANGED <<message, backupMessage, infiniteData, queryData, fetching>>

\* reader.read() resolves with {value, done: false}.
ReadChunk(m, value) ==
    /\ ~Running
    /\ mutations[m].pc = "onSuccess"
    /\ ReadsUpTo(MaxMutations) < MaxReads
    /\ LET acc == Accumulate(mutations[m].accResponse, Decode(value)) IN
        /\ infiniteData' = [infiniteData EXCEPT
                                ![fileId] = FoldTransform(@, acc)]
        /\ mutations' = [mutations EXCEPT ![m] =
                [@ EXCEPT !.accResponse = acc,
                          !.chunks = Append(@, value), !.reads = @ + 1,
                          !.effects = Append(@, "fold")]]
    /\ UNCHANGED <<message, isLoading, backupMessage, queryData, fetching>>

\* reader.read() resolves with {value: undefined, done: true}: the loop body
\* still runs once, then onSuccess returns.
ReadDone(m) ==
    /\ ~Running
    /\ mutations[m].pc = "onSuccess"
    /\ LET acc == Accumulate(mutations[m].accResponse, Decode(<<>>)) IN
        /\ infiniteData' = [infiniteData EXCEPT
                                ![fileId] = FoldTransform(@, acc)]
        /\ mutations' = [mutations EXCEPT ![m] =
                [@ EXCEPT !.pc = "onSuccessDone", !.outcome = "completed",
                          !.accResponse = acc,
                          !.effects = Append(@, "fold")]]
    /\ UNCHANGED <<message, isLoading, backupMessage, queryData, fetching>>

\* reader.read() rejects: onSuccess throws.
ReadError(m) ==
    /\ ~Running
    /\ mutations[m].pc = "onSuccess"
    /\ mutations' = [mutations EXCEPT ![m] =
            [@ EXCEPT !.pc = "rejected", !.outcome = "streamError"]]
    /\ UNCHANGED <<message, isLoading, backupMessage, infiniteData, queryData,
                   fetching>>

\* context.previousMessages read without ?. : onError throws on an undefined
\* context and onSettled is never called.
OnErrorThrowsWithoutContext(m) ==
    /\ mutations[m].pc = "rejected"
    /\ message' = backupMessage
    /\ IF mutations[m].context.defined
       THEN /\ queryData' = [queryData EXCEPT ![fileId] =
                    [present |-> TRUE,
                     messages |-> mutations[m].context.previousMessages]]
            /\ mutations' = [mutations EXCEPT ![m] =
                    [@ EXCEPT !.pc = "onErrorDone",
                              !.effects = Append(@, "rollback")]]
       ELSE /\ mutations' = [mutations EXCEPT ![m] = [@ EXCEPT !.pc = "crashed"]]
            /\ UNCHANGED queryData
    /\ UNCHANGED <<isLoading, backupMessage, infiniteData, fetching>>

OnErrorKeepsInput(m) ==
    /\ mutations[m].pc = "rejected"
    /\ queryData' = [queryData EXCEPT ![fileId] =
            [present |-> TRUE,
             messages |-> IF mutations[m].context.defined
                          THEN mutations[m].context.previousMessages
                          ELSE <<>>]]
    /\ mutations' = [mutations EXCEPT ![m] =
            [@ EXCEPT !.pc = "onErrorDone", !.effects = Append(@, "rollback")]]
    /\ UNCHANGED <<message, isLoading, backupMessage, infiniteData, fetching>>

\* onError: setMessage(backupMessage.current); setData({fileId}, ...) writes
\* the plain query of {fileId}, not the infinite query of {fileId, limit}.
OnError(m) ==
    /\ mutations[m].pc = "rejected"
    /\ message' = backupMessage
    /\ queryData' = [queryData EXCEPT ![fileId] =
            [present |-> TRUE,
             messages |-> IF mutations[m].context.defined
                          THEN mutations[m].context.previousMessages
                          ELSE <<>>]]
    /\ mutations' = [mutations EXCEPT ![m] =
            [@ EXCEPT !.pc = "onErrorDone", !.effects = Append(@, "rollback")]]
    /\ UNCHANGED <<isLoading, backupMessage, infiniteData, fetching>>

OnSettledKeepsLoading(m) ==
    /\ mutations[m].pc \in {"onSuccessDone", "onErrorDone"}
    /\ fetching' = [fetching EXCEPT ![fileId] = TRUE]
    /\ mutations' = [mutations EXCEPT ![m] =
            [@ EXCEPT !.pc = "settled", !.chunks = <<>>, !.accResponse = <<>>,
                      !.preInsert = <<>>, !.effects = Append(@, "invalidate")]]
    /\ UNCHANGED <<message, isLoading, backupMessage, infiniteData, queryData>>

\* onSettled: setIsLoading(false); invalidate({fileId}) marks the queries of
\* the file stale and refetches the mounted infinite query.  The locals of
\* the callbacks are gone once the mutation has settled.
OnSettled(m) ==
    /\ mutations[m].pc \in {"onSuccessDone", "onErrorDone"}
    /\ isLoading' = FALSE
    /\ fetching' = [fetching EXCEPT ![fileId] = TRUE]
    /\ mutations' = [mutations EXCEPT ![m] =
            [@ EXCEPT !.pc = "settled", !.chunks = <<>>, !.accResponse = <<>>,
                      !.preInsert = <<>>, !.effects = Append(@, "invalidate")]]
    /\ UNCHANGED <<message, backupMessage, infiniteData, queryData>>

Next ==
    \/ \E text \in InputTexts : HandleInputChange(text)
    \/ \E f \in Files : StartRefresh(f)
    \/ \E f \in Files : \E entry \in ServerEntries(f) : CompleteRefresh(f, entry)
    \/ \E m \in Mutations : AddMessage(m)
    \/ \E m \in Mutations : OnMutateResume(m)
    \/ \E m \in Mutations : ResponseError(m)
    \/ \E m \in Mutations : ResponseNoBody(m)
    \/ \E m \in Mutations : ResponseStream(m)
    \/ \E m \in Mutations : \E value \in Chunks : ReadChunk(m, value)
    \/ \E m \in Mutations : ReadDone(m)
    \/ \E m \in Mutations : ReadError(m)
    \/ \E m \in Mutations : OnError(m)
    \/ \E m \in Mutations : OnSettled(m)

Spec == Init /\ [][Next]_vars

TypeOK ==
    /\ isLoading \in BOOLEAN
    /\ \A m \in Mutations :
          mutations[m].pc \in {"idle", "onMutate", "mutationFn", "onSuccess",
                               "rejected", "onSuccessDone", "onErrorDone", "settled"}

\* ------------------------------------------------- steps and observations
OnMutateStep(m) ==
    mutations[m].pc = "onMutate" /\ mutations'[m].pc # "onMutate"

DispatchStep(m) ==
    mutations[m].pc = "onMutate" /\ mutations'[m].pc = "mutationFn"

FoldStep(m) == mutations'[m].effects = Append(mutations[m].effects, "fold")

OnErrorStep(m) ==
    mutations[m].pc = "rejected" /\ mutations'[m].pc = "onErrorDone"

Failed(m) == mutations[m].outcome \in {"typeError", "requestError", "streamError"}

Entry == infiniteData[fileId]

AiCount(entry) == Count([i \in 1..Len(FlatMessages(entry.pages)) |->
                            FlatMessages(entry.pages)[i].id], AiResponseId)

\* The texts of the reply records of the first page.
ReplyTexts(entry) ==
    IF Len(entry.pages) = 0 THEN {}
    ELSE { entry.pages[1].messages[i].text :
             i \in { j \in 1..Len(entry.pages[1].messages) :
                       /\ entry.pages[1].messages[j].id = AiResponseId
                       /\ ~entry.pages[1].messages[j].isUserMessage } }

\* concat(c1..ck): the decoded increments in delivery order.
RECURSIVE ConcatDecoded(_)
ConcatDecoded(chunks) ==
    IF chunks = <<>> THEN <<>>
    ELSE Decode(Head(chunks)) \o ConcatDecoded(Tail(chunks))

\* The delivery with chunks i and i+1 joined into one chunk.
MergeAt(chunks, i) ==
    SubSeq(chunks, 1, i - 1) \o << chunks[i] \o chunks[i + 1] >>
        \o SubSeq(chunks, i + 2, Len(chunks))

\* ------------------------------------------------------------------ claims

\* C1: once the error handler of a failed mutation has run, the flattened
\* records of the entry of {fileId, limit} equal the flattened records it held
\* just before that mutation's optimistic insert.
C1_RollbackRestoresExactly ==
    [][\A m \in Mutations :
          OnErrorStep(m) =>
              FlatMessages(infiniteData'[fileId].pages) = mutations[m].preInsert]_vars

\* C2: every cache entry holds at most one record with the id "ai-response",
\* and when it holds one it is in pages[0].
C2_SinglePendingRecord ==
    \A k \in InfiniteKeys :
        /\ AiCount(infiniteData[k]) <= 1
        /\ AiCount(infiniteData[k]) = 1 =>
              \E i \in 1..Len(infiniteData[k].pages[1].messages) :
                  infiniteData[k].pages[1].messages[i].id = AiResponseId

C2_Witness ==
    \E m \in Mutations :
        /\ Count(mutations[m].effects, "fold") >= 2
        /\ AiCount(Entry) = 1
        /\ Len(Entry.pages) = 2

\* C3: every settled mutation, succeeded or failed, has issued exactly one
\* invalidate, as its last effect and after its rollback or last fold; nothing
\* of the mutation happens after it; isLoading is false while a mutation has
\* settled and no other one is in flight.
C3_SettleAlwaysInvalidates ==
    /\ [](\A m \in Mutations :
            /\ Count(mutations[m].effects, "invalidate") =
                  (IF mutations[m].pc = "settled" THEN 1 ELSE 0)
            /\ mutations[m].pc = "settled" =>
                  /\ mutations[m].effects[Len(mutations[m].effects)] = "invalidate"
                  /\ Failed(m) =>
                        mutations[m].effects[Len(mutations[m].effects) - 1] = "rollback"
                  /\ (\A n \in Mutations : ~InFlight(n)) => ~isLoading)
    /\ [][\A m \in Mutations :
            mutations[m].pc = "settled" => mutations'[m] = mutations[m]]_vars

C3_Witness ==
    \E m, n \in Mutations :
        /\ mutations[m].pc = "settled" /\ mutations[m].outcome = "streamError"
        /\ Count(mutations[m].effects, "fold") >= 1
        /\ mutations[n].pc = "settled" /\ mutations[n].outcome = "completed"

\* C4: a submit against an entry with at least one page leaves, when the
\* request is dispatched, a new record with the submitted text and
\* isUserMessage = true at position 0 of the first page, followed by the
\* records the first page held before in the same order; the other pages, the
\* other fields of the first page and pageParams are unchanged.
C4_OptimisticVisibility ==
    [][\A m \in Mutations :
          (OnMutateStep(m) /\ Entry.present /\ Len(Entry.pages) >= 1) =>
              /\ DispatchStep(m)
              /\ mutations'[m].request.sent
              /\ Entry'.present
              /\ Len(Entry'.pages) = Len(Entry.pages)
              /\ Entry'.pageParams = Entry.pageParams
              /\ \A p \in 2..Len(Entry.pages) : Entry'.pages[p] = Entry.pages[p]
              /\ Entry'.pages[1].nextCursor = Entry.pages[1].nextCursor
              /\ Len(Entry'.pages[1].messages) = Len(Entry.pages[1].messages) + 1
              /\ Tail(Entry'.pages[1].messages) = Entry.pages[1].messages
              /\ Head(Entry'.pages[1].messages).text = mutations[m].variables
              /\ Head(Entry'.pages[1].messages).isUserMessage
              /\ \A i \in 1..Len(FlatMessages(Entry.pages)) :
                    FlatMessages(Entry.pages)[i].id # Head(Entry'.pages[1].messages).id
      ]_vars

C4_Witness ==
    \E m \in Mutations :
        /\ mutations[m].pc = "mutationFn"
        /\ Len(Entry.pages) = 2
        /\ Len(Entry.pages[1].messages) >= 3
        /\ Entry.pages[1].messages[1] = OwnMessage(m, <<104, 105>>)

\* C5: a submit of text t against an absent entry, or an entry without pages,
\* leaves after the optimistic phase a first page whose record at position 0
\* has text t and isUserMessage = true.
C5_OptimisticInsertOnEmptyCache ==
    [][\A m \in Mutations :
          (OnMutateStep(m) /\ (~Entry.present \/ Len(Entry.pages) = 0)) =>
              /\ Len(Entry'.pages) >= 1
              /\ Len(Entry'.pages[1].messages) >= 1
              /\ Entry'.pages[1].messages[1].text = mutations[m].variables
              /\ Entry'.pages[1].messages[1].isUserMessage
      ]_vars

\* C6: after each fold of a mutation into an entry with at least one page,
\* the first page holds one reply record, with isUserMessage = false and the
\* text concat(c1..ck) of the increments decoded so far, in delivery order;
\* this includes the fold of the final read.
C6_CumulativeMerge ==
    [][\A m \in Mutations :
          (FoldStep(m) /\ Entry.present /\ Len(Entry.pages) >= 1) =>
              ReplyTexts(Entry') = { ConcatDecoded(mutations'[m].chunks) }
      ]_vars

C6_Witness ==
    \E m \in Mutations :
        /\ mutations[m].pc = "onSuccessDone"
        /\ mutations[m].chunks = << <<169, 97>>, <<195>> >>
        /\ ReplyTexts(Entry) = { <<ReplacementChar, 97, ReplacementChar>> }

\* C7: the final reply text of a completed stream is the one the delivery
\* with any two adjacent chunks joined into one chunk yields.
C7_ChunkBoundaryIndependence ==
    \A m \in Mutations :
        (mutations[m].pc = "onSuccessDone" /\ mutations[m].outcome = "completed") =>
            \A i \in 1..(Len(mutations[m].chunks) - 1) :
                mutations[m].accResponse =
                    ConcatDecoded(MergeAt(mutations[m].chunks, i))

\* C8: a settled mutation that failed (request error, no stream body, stream
\* error) has toasted exactly once; one that succeeded has not toasted.
C8_FailureNotification ==
    \A m \in Mutations :
        mutations[m].pc = "settled" =>
            Count(mutations[m].effects, "toast") =
                (IF mutations[m].outcome = "completed" THEN 0 ELSE 1)

\* C9: a mutation whose response had no stream body has, once settled,
\* toasted and run the rollback exactly once before its invalidate.
C9_NoBodyIsFailure ==
    \A m \in Mutations :
        (mutations[m].pc = "settled" /\ mutations[m].outcome = "noBody") =>
            /\ Count(mutations[m].effects, "toast") = 1
            /\ Count(mutations[m].effects, "rollback") = 1

\* C10: a submit with pending text t clears the input and keeps t as the
\* text of the mutation; the request, sent with the input still empty, and
\* the optimistic record carry t; when the mutation fails and no submit was
\* issued after it, the input is t once onError has run.
C10_PendingInputCaptureAndRestore ==
    [][\A m \in Mutations :
          /\ (mutations[m].pc = "idle" /\ mutations'[m].pc # "idle") =>
                /\ mutations'[m].variables = message
                /\ message' = <<>>
                /\ ~mutations'[m].request.sent
          /\ mutations[m].pc # "idle" =>
                mutations'[m].variables = mutations[m].variables
          /\ DispatchStep(m) =>
                /\ message = <<>>
                /\ mutations'[m].request.message = mutations[m].variables
                /\ Len(Entry'.pages) >= 1 =>
                      Entry'.pages[1].messages[1].text = mutations[m].variables
          /\ (OnErrorStep(m) /\ \A n \in Mutations : n > m => mutations[n].pc = "idle") =>
                message' = mutations[m].variables
      ]_vars

C10_Witness ==
    \E m \in Mutations :
        /\ mutations[m].pc = "onErrorDone"
        /\ mutations[m].outcome = "streamError"
        /\ mutations[m].variables = <<104, 105>>
        /\ message = <<104, 105>>
        /\ \A n \in Mutations : n > m => mutations[n].pc = "idle"

\* The cache operations of a mutation, in the order they were made.
CacheOps(m) == SelectSeq(mutations[m].effects, LAMBDA e : e # "toast")

Rank(e) ==
    CASE e = "cancel" -> 1
      [] e = "snapshot" -> 2
      [] e = "transform" -> 3
      [] e = "dispatch" -> 4
      [] e = "fold" -> 5
      [] e = "rollback" -> 6
      [] e = "invalidate" -> 7

ReadDoneStep(m) ==
    mutations[m].pc = "onSuccess" /\ mutations'[m].pc = "onSuccessDone"

\* C11: for a single mutation, isLoading is true in every state from the end
\* of the optimistic phase through the wait for the response and through
\* every streaming step.
C11_BusySpansInFlight ==
    \A m \in Mutations :
        (/\ mutations[m].pc \in {"mutationFn", "onSuccess"}
         /\ \A n \in Mutations : n # m => ~InFlight(n)) => isLoading

\* C12: the cache operations of a mutation occur in the order cancel,
\* snapshot read, optimistic prepend, request dispatch, folds, rollback,
\* invalidate: only a fold repeats, nothing follows the invalidate, the request
\* is dispatched right after the prepend and a fold only after the dispatch.
C12_PhaseOrdering ==
    \A m \in Mutations :
        LET ops == CacheOps(m) IN
        /\ mutations[m].request.sent <=> Count(ops, "dispatch") = 1
        /\ mutations[m].pc = "onSuccess" =>
              Count(ops, "fold") = Len(mutations[m].chunks)
        /\ \A i \in 1..Len(ops) :
              /\ i = 1 => ops[i] = "cancel"
              /\ i > 1 =>
                    /\ \/ Rank(ops[i - 1]) < Rank(ops[i])
                       \/ ops[i - 1] = "fold" /\ ops[i] = "fold"
                    /\ ops[i] = "snapshot" => ops[i - 1] = "cancel"
                    /\ ops[i] = "transform" => ops[i - 1] = "snapshot"
                    /\ ops[i] = "dispatch" => ops[i - 1] = "transform"
                    /\ ops[i] = "fold" => ops[i - 1] \in {"dispatch", "fold"}
                    /\ ops[i] = "rollback" => ops[i - 1] \in {"snapshot", "dispatch", "fold"}
                    /\ ops[i] = "invalidate" => i = Len(ops)

C12_Witness ==
    \E m \in Mutations :
        /\ mutations[m].pc = "settled"
        /\ mutations[m].effects = <<"cancel", "snapshot", "transform", "dispatch",
                                    "fold", "fold", "rollback", "invalidate">>

\* C14: the snapshot returned by onMutate (context.previousMessages) equals
\* the records of all pages of the entry of {fileId, limit}, flattened in page
\* order, as they were before the optimistic transform.
C14_SnapshotContent ==
    \A m \in Mutations :
        (mutations[m].pc # "settled" /\ mutations[m].context.defined) =>
            mutations[m].context.previousMessages = mutations[m].preInsert

\* C16: a step of a mutation of {fileId, limit} leaves the entries under every
\* other key, and the in-flight refreshes of the other files, unchanged.
C16_PerFingerprintIsolation ==
    [][mutations' # mutations =>
          /\ \A f \in Files \ {fileId} : fetching'[f] = fetching[f]
          /\ \A k \in InfiniteKeys \ {fileId} : infiniteData'[k] = infiniteData[k]
          /\ queryData' = queryData
      ]_vars

\* C18: the final read of a stream (done) performs no fold that changes the
\* entry; a stream that ends without data creates no reply record.
C18_ReplyCreatedOnFirstDataOnly ==
    [][\A m \in Mutations :
          ReadDoneStep(m) =>
              /\ infiniteData' = infiniteData
              /\ mutations[m].chunks = <<>> => AiCount(Entry') = AiCount(Entry)
      ]_vars

\* C19: the optimistic transform raises no fault on any reachable entry, so
\* every submit reaches the dispatch of its request.
C19_TransformsAreTotal ==
    [][\A m \in Mutations : OnMutateStep(m) => DispatchStep(m)]_vars

\* ------------------------------------------------ restricted callers, fairness
\* The caller submits only while isLoading is false (the send control is
\* disabled while busy).
GuardedAddMessage(m) == ~isLoading /\ AddMessage(m)

NextGuarded ==
    \/ \E text \in InputTexts : HandleInputChange(text)
    \/ \E f \in Files : StartRefresh(f)
    \/ \E f \in Files : \E entry \in ServerEntries(f) : CompleteRefresh(f, entry)
    \/ \E m \in Mutations : GuardedAddMessage(m)
    \/ \E m \in Mutations : OnMutateResume(m)
    \/ \E m \in Mutations : ResponseError(m)
    \/ \E m \in Mutations : ResponseNoBody(m)
    \/ \E m \in Mutations : ResponseStream(m)
    \/ \E m \in Mutations : \E value \in Chunks : ReadChunk(m, value)
    \/ \E m \in Mutations : ReadDone(m)
    \/ \E m \in Mutations : ReadError(m)
    \/ \E m \in Mutations : OnError(m)
    \/ \E m \in Mutations : OnSettled(m)

SpecGuarded == Init /\ [][NextGuarded]_vars

\* The caller submits only once every earlier mutation has settled.
SerialAddMessage(m) == (\A n \in Mutations : ~InFlight(n)) /\ AddMessage(m)

NextSerial ==
    \/ \E text \in InputTexts : HandleInputChange(text)
    \/ \E f \in Files : StartRefresh(f)
    \/ \E f \in Files : \E entry \in ServerEntries(f) : CompleteRefresh(f, entry)
    \/ \E m \in Mutations : SerialAddMessage(m)
    \/ \E m \in Mutations : OnMutateResume(m)
    \/ \E m \in Mutations : ResponseError(m)
    \/ \E m \in Mutations : ResponseNoBody(m)
    \/ \E m \in Mutations : ResponseStream(m)
    \/ \E m \in Mutations : \E value \in Chunks : ReadChunk(m, value)
    \/ \E m \in Mutations : ReadDone(m)
    \/ \E m \in Mutations : ReadError(m)
    \/ \E m \in Mutations : OnError(m)
    \/ \E m \in Mutations : OnSettled(m)

SpecSerial == Init /\ [][NextSerial]_vars

\* The pending continuation of a callback runs (at most one mutation is at
\* such a point at a time); the request of every mutation resolves or
\* rejects; every stream ends, by done or by an error.
Continue ==
    \E m \in Mutations : OnMutateResume(m) \/ OnError(m) \/ OnSettled(m)

Fairness ==
    /\ WF_vars(Continue)
    /\ \A m \in Mutations :
          /\ WF_vars(ResponseError(m) \/ ResponseNoBody(m) \/ ResponseStream(m))
          /\ WF_vars(ReadDone(m) \/ ReadError(m))

SpecFair == Init /\ [][NextSerial]_vars /\ Fairness

\* C13: when submit is invoked only while isLoading is false, at most one
\* mutation is submitting or streaming at any instant.
C13_MutualExclusionUnderGuard ==
    Cardinality({ m \in Mutations :
                    mutations[m].pc \in {"mutationFn", "onSuccess"} }) <= 1

\* C17: for a mutation submitted after every earlier one settled, the first
\* fold into an entry with pages puts the reply record at position 0 of the
\* first page, ahead of the mutation's own message, and leaves every record
\* the entry held (the reply of an earlier mutation included) as it was.
\* Stated for entries whose earlier reply, if any, holds text.
C17_NewestFirstReply ==
    [][\A m \in Mutations :
          (/\ FoldStep(m)
           /\ Count(mutations[m].effects, "fold") = 0
           /\ Len(Entry.pages) >= 1
           /\ <<>> \notin ReplyTexts(Entry)) =>
              /\ Entry'.pages[1].messages =
                    <<AiResponse(mutations'[m].accResponse)>> \o Entry.pages[1].messages
              /\ \A p \in 2..Len(Entry.pages) : Entry'.pages[p] = Entry.pages[p]
      ]_vars

C15_CancelAtomicWithOptimisticWrite ==
    [][\A m \in Mutations :
          /\ (mutations[m].pc = "idle" /\ mutations'[m].pc # "idle") =>
                ~fetching'[fileId]
          /\ mutations[m].pc = "onMutate" =>
                /\ OnMutateStep(m)
                /\ ~fetching[fileId]
                /\ ~fetching'[fileId]
      ]_vars

\* The refetch of mutation 1's invalidate was aborted by the submit of
\* mutation 2: its own message is still in the entry, behind the new one.
C15_Witness ==
    /\ MaxMutations >= 2
    /\ mutations[1].pc = "settled"
    /\ mutations[2].pc = "mutationFn"
    /\ ~fetching[fileId]
    /\ Len(Entry.pages) >= 1
    /\ Len(Entry.pages[1].messages) >= 2
    /\ Entry.pages[1].messages[1].id = Uuid(2)
    /\ \E i \in 2..Len(Entry.pages[1].messages) :
          Entry.pages[1].messages[i].id = Uuid(1)

====
